---------------------------- MODULE Spec2Model ----------------------------
(***************************************************************************)
(* Credit Risk Scoring (XGBoost) Streamlit page, src/app.py.               *)
(*                                                                         *)
(* Three specifications share the variables below:                         *)
(*   SpecBucket  risk_bucket applied to one probability                    *)
(*   SpecClamp   clamp_non_negative applied to one value, then to its own  *)
(*               result                                                    *)
(*   Spec        the page: every widget edit and every click on the        *)
(*               button reruns the script top to bottom                    *)
(*                                                                         *)
(* A Python float is a record [k, n]: k = "fin" with n the value in a      *)
(* fixed unit (ProbUnit for a probability, MoneyUnit for a money field),   *)
(* "negzero" for -0.0, "nan", or "inf" with n = 1 / -1 for the sign.       *)
(***************************************************************************)
EXTENDS Integers, Sequences, FiniteSets, TLC

VARIABLES
    pc,         \* "ready", "once", "twice", "done" for a pure function; "page"
    fnArg,      \* argument handed to the pure function
    fnRes,      \* its result
    fnRes2,     \* result of the second application (clamp_non_negative)
    widgets,    \* the thirteen sidebar widgets' current values
    files,      \* which artifact files were on disk at the last page run
    cache,      \* st.cache_resource's entry for load_artifacts, or NoPair
    hadCache,   \* whether that entry existed when the last page run began
    loads,      \* executions of load_artifacts' body that returned a pair
    failed,     \* triggered requests that ended in an error so far
    run_pred,   \* the button's value in the last page run
    oracle,     \* the library call that raises in the last run, if reached
    input_dict, \* input_dict when the last page run ended
    cleaned,    \* the record handed to dv.transform, or Unset
    artifacts,  \* the (dv, booster) load_artifacts() returned, or NoPair
    proba,      \* float(booster.predict(dmat)[0]), or Unset
    calls,      \* the pipeline calls of the last page run, in order
    fileOps,    \* the file operations of the last page run, in order
    shown       \* what the right column shows

pureVars == <<pc, fnArg, fnRes, fnRes2>>

appVars ==
    <<widgets, files, cache, hadCache, loads, failed, run_pred, oracle,
      input_dict, cleaned, artifacts, proba, calls, fileOps, shown>>

vars == <<pureVars, appVars>>

Unset == "unset"

---------------------------------------------------------------------------
(* Bounds *)

\* longest string handed to clamp_non_negative
MaxStrLen == 4
\* largest |integer| handed to clamp_non_negative as int or as whole float
MaxAbsInt == 3
\* number of steps of the probability grid handed to risk_bucket
MaxProbIdx == 140

---------------------------------------------------------------------------
(* Python floats *)

Fin(n) == [k |-> "fin", n |-> n]
NegZero == [k |-> "negzero", n |-> 0]
NaN == [k |-> "nan", n |-> 0]
PosInf == [k |-> "inf", n |-> 1]
NegInf == [k |-> "inf", n |-> -1]

\* a < b on floats: every comparison with nan is False, -0.0 equals 0.0
FLt(a, b) ==
    IF a.k = "nan" \/ b.k = "nan" THEN FALSE
    ELSE IF a.k = "inf" THEN a.n < 0 /\ ~(b.k = "inf" /\ b.n < 0)
    ELSE IF b.k = "inf" THEN b.n > 0
    ELSE a.n < b.n

\* a == b on floats
FEq(a, b) ==
    /\ a.k # "nan"
    /\ b.k # "nan"
    /\ ~FLt(a, b)
    /\ ~FLt(b, a)

\* builtin max(a, b): the first argument unless the second is greater
maxSwapped(a, b) == IF FLt(b, a) THEN a ELSE b
max(a, b) == IF FLt(a, b) THEN b ELSE a

\* builtin min(a, b): the first argument unless the second is smaller
min(a, b) == IF FLt(b, a) THEN b ELSE a

---------------------------------------------------------------------------
(* risk_bucket *)

\* one probability unit is 1e-6
ProbUnit == 1000000
LowThreshold == 330000
MediumThreshold == 660000

HelperLow == "Risiko rendah - umumnya layak dipertimbangkan."
HelperMedium == "Risiko sedang - perlu verifikasi tambahan."
HelperHigh == "Risiko tinggi - disarankan evaluasi ketat."

risk_bucket_le(prob_default) ==
    IF ~FLt(Fin(LowThreshold), prob_default) /\ prob_default.k # "nan"
    THEN <<"LOW", HelperLow>>
    ELSE IF ~FLt(Fin(MediumThreshold), prob_default) /\ prob_default.k # "nan"
    THEN <<"MEDIUM", HelperMedium>>
    ELSE <<"HIGH", HelperHigh>>

risk_bucket(prob_default) ==
    IF FLt(prob_default, Fin(LowThreshold)) THEN <<"LOW", HelperLow>>
    ELSE IF FLt(prob_default, Fin(MediumThreshold)) THEN <<"MEDIUM", HelperMedium>>
    ELSE <<"HIGH", HelperHigh>>

---------------------------------------------------------------------------
(* Python values and float(value) *)

\* one money unit is 10^-(MaxStrLen-1): every decimal string of at most
\* MaxStrLen characters denotes a whole number of units
MoneyUnit == 10 ^ (MaxStrLen - 1)

PyFloat(f) == [t |-> "float", v |-> f]
PyInt(i) == [t |-> "int", v |-> i]
\* an int beyond the range of a double
PyHugeInt == [t |-> "hugeint", v |-> 0]
PyBool(b) == [t |-> "bool", v |-> b]
PyNone == [t |-> "NoneType", v |-> 0]
PyStr(s) == [t |-> "str", v |-> s]
PyList == [t |-> "list", v |-> 0]

Return(v) == [exc |-> "none", val |-> v]
Raise(e) == [exc |-> e, val |-> Unset]

\* the exception types that `except Exception` catches
ExceptionClass ==
    {"TypeError", "ValueError", "OverflowError", "FileNotFoundError",
     "UnpicklingError", "XGBoostError"}

Alphabet == {"-", ".", "0", "5", "a", "b", "c", "n"}
Digits == {"0", "5"}
DigitVal(c) == IF c = "5" THEN 5 ELSE 0

RECURSIVE DigitsValue(_)
DigitsValue(ds) ==
    IF Len(ds) = 0 THEN 0
    ELSE 10 * DigitsValue(SubSeq(ds, 1, Len(ds) - 1)) + DigitVal(ds[Len(ds)])

IsDecimal(b) ==
    /\ \A i \in DOMAIN b : b[i] \in Digits \cup {"."}
    /\ Cardinality({i \in DOMAIN b : b[i] = "."}) <= 1
    /\ \E i \in DOMAIN b : b[i] \in Digits

\* float(s) for a string s over Alphabet: [sign] ("nan" | decimal)
float_from_string(s) ==
    LET neg == Len(s) > 0 /\ s[1] = "-"
        b == IF neg THEN Tail(s) ELSE s
    IN  IF b = <<"n", "a", "n">> THEN Return(NaN)
        ELSE IF ~IsDecimal(b) THEN Raise("ValueError")
        ELSE LET dots == {i \in DOMAIN b : b[i] = "."}
                 fracLen == IF dots = {} THEN 0
                            ELSE Len(b) - (CHOOSE i \in dots : TRUE)
                 mant == DigitsValue(SelectSeq(b, LAMBDA c : c # "."))
                 n == mant * 10 ^ (MaxStrLen - 1 - fracLen)
             IN  IF neg /\ n = 0 THEN Return(NegZero)
                 ELSE Return(Fin(IF neg THEN -n ELSE n))

\* float(x)
float(x) ==
    CASE x.t = "float" -> Return(x.v)
      [] x.t = "int" -> Return(Fin(x.v * MoneyUnit))
      [] x.t = "bool" -> Return(Fin(IF x.v THEN MoneyUnit ELSE 0))
      [] x.t = "hugeint" -> Raise("OverflowError")
      [] x.t = "str" -> float_from_string(x.v)
      [] OTHER -> Raise("TypeError")

---------------------------------------------------------------------------
(* clamp_non_negative *)

clamp_no_except(value) ==
    LET c == float(value)
    IN  IF c.exc # "none" THEN c ELSE Return(max(Fin(0), c.val))

clamp_no_max(value) ==
    LET c == float(value)
    IN  IF c.exc \in ExceptionClass THEN Return(Fin(0))
        ELSE IF c.exc # "none" THEN c
        ELSE Return(c.val)

clamp_non_negative(value) ==
    LET c == float(value)
    IN  IF c.exc \in ExceptionClass THEN Return(Fin(0))
        ELSE IF c.exc # "none" THEN c
        ELSE Return(max(Fin(0), c.val))

---------------------------------------------------------------------------
(* Bounds of the page *)

\* widgets that may differ from their defaults at the same time
MaxEdited == 1
\* failed requests counted in one session
MaxFailed == 2
\* executions of load_artifacts' body that return a pair
MaxLoads == 2

---------------------------------------------------------------------------
(* Artifacts *)

VECTORIZER_PATH == "dict_vectorizer.joblib"
MODEL_PATH == "xgb_credit_risk.json"

\* no (dv, booster) pair: objects are numbered from 1
NoPair == [dv |-> 0, booster |-> 0]

RaiseWith(type, text) == [exc |-> type, val |-> text]

\* str(e) of a caught exception
str(e) == e.val

FileNotFoundText(path) == <<"File tidak ditemukan: ", path>>

\* The body of load_artifacts. disk says which files exist; fails names the
\* library call that raises if it is reached; n identifies the objects built.
load_artifacts_wrong_path(disk, fails, n) ==
    IF ~disk.vectorizer
    THEN [r |-> RaiseWith("FileNotFoundError", FileNotFoundText(MODEL_PATH)),
          ops |-> <<"exists:vectorizer">>]
    ELSE IF ~disk.model
    THEN [r |-> RaiseWith("FileNotFoundError", FileNotFoundText(VECTORIZER_PATH)),
          ops |-> <<"exists:vectorizer", "exists:model">>]
    ELSE IF fails = "joblib.load"
    THEN [r |-> RaiseWith("UnpicklingError", <<"joblib.load">>),
          ops |-> <<"exists:vectorizer", "exists:model", "joblib.load">>]
    ELSE IF fails = "load_model"
    THEN [r |-> RaiseWith("XGBoostError", <<"load_model">>),
          ops |-> <<"exists:vectorizer", "exists:model", "joblib.load",
                    "load_model">>]
    ELSE [r |-> Return([dv |-> n, booster |-> n]),
          ops |-> <<"exists:vectorizer", "exists:model", "joblib.load",
                    "load_model">>]

load_artifacts(disk, fails, n) ==
    IF ~disk.vectorizer
    THEN [r |-> RaiseWith("FileNotFoundError", FileNotFoundText(VECTORIZER_PATH)),
          ops |-> <<"exists:vectorizer">>]
    ELSE IF ~disk.model
    THEN [r |-> RaiseWith("FileNotFoundError", FileNotFoundText(MODEL_PATH)),
          ops |-> <<"exists:vectorizer", "exists:model">>]
    ELSE IF fails = "joblib.load"
    THEN [r |-> RaiseWith("UnpicklingError", <<"joblib.load">>),
          ops |-> <<"exists:vectorizer", "exists:model", "joblib.load">>]
    ELSE IF fails = "load_model"
    THEN [r |-> RaiseWith("XGBoostError", <<"load_model">>),
          ops |-> <<"exists:vectorizer", "exists:model", "joblib.load",
                    "load_model">>]
    ELSE [r |-> Return([dv |-> n, booster |-> n]),
          ops |-> <<"exists:vectorizer", "exists:model", "joblib.load",
                    "load_model">>]

\* @st.cache_resource around load_artifacts: a stored pair is returned
\* without running the body; the body's return value is stored, an
\* exception is not.
cache_resource_off(entry, disk, fails, n) ==
    LET b == load_artifacts(disk, fails, n)
    IN  [r |-> b.r, ops |-> b.ops,
         entry |-> IF b.r.exc = "none" THEN b.r.val ELSE entry,
         ran |-> b.r.exc = "none"]

cache_resource(entry, disk, fails, n) ==
    IF entry # NoPair
    THEN [r |-> Return(entry), ops |-> <<>>, entry |-> entry, ran |-> FALSE]
    ELSE LET b == load_artifacts(disk, fails, n)
         IN  [r |-> b.r, ops |-> b.ops,
              entry |-> IF b.r.exc = "none" THEN b.r.val ELSE NoPair,
              ran |-> b.r.exc = "none"]

---------------------------------------------------------------------------
(* Sidebar inputs and input_dict *)

HOME_OPTIONS == <<"owner", "parents">>
MARITAL_OPTIONS == <<"single", "married">>
RECORDS_OPTIONS == <<"no", "yes">>
JOB_OPTIONS == <<"fixed", "freelance", "partime">>

Range(f) == {f[i] : i \in DOMAIN f}

MoneyKeys == <<"income", "assets", "debt">>
IntKeys == {"age", "seniority", "time", "expenses", "amount", "price"}
ChoiceKeys == {"home", "marital", "records", "job"}
Keys == ChoiceKeys \cup IntKeys \cup Range(MoneyKeys)

Money(n) == PyFloat(Fin(n * MoneyUnit))

\* each widget's value= (number_input) or options[index] (selectbox)
WidgetDefault ==
    [home |-> HOME_OPTIONS[1], marital |-> MARITAL_OPTIONS[2],
     records |-> RECORDS_OPTIONS[1], job |-> JOB_OPTIONS[2],
     age |-> PyInt(36), seniority |-> PyInt(5), time |-> PyInt(36),
     expenses |-> PyInt(60), income |-> Money(100), assets |-> Money(4000),
     debt |-> Money(0), amount |-> PyInt(1100), price |-> PyInt(1400)]

\* each number_input's step=
WidgetStep ==
    [age |-> 1, seniority |-> 1, time |-> 1, expenses |-> 1, amount |-> 50,
     price |-> 50]

\* The values a widget delivers here: every option of a selectbox, the
\* default and one step up of an integer input, the default and a negative
\* value of a float input (min_value is enforced by the browser, not by the
\* page's script).
WidgetValues(k) ==
    CASE k = "home" -> Range(HOME_OPTIONS)
      [] k = "marital" -> Range(MARITAL_OPTIONS)
      [] k = "records" -> Range(RECORDS_OPTIONS)
      [] k = "job" -> Range(JOB_OPTIONS)
      [] k \in IntKeys -> {WidgetDefault[k], PyInt(WidgetDefault[k].v + WidgetStep[k])}
      [] OTHER -> {WidgetDefault[k], PyFloat(Fin(-52 * (MoneyUnit \div 10)))}

\* int(x), float(x), str(x) of lines 151-163 return a widget's value as it
\* is: a selectbox gives a str, an integer input an int, a float input a float
build_input_dict(w) == [k \in Keys |-> w[k]]

\* cleaned = dict(input_dict); for k in [...]: cleaned[k] = clamp_non_negative(cleaned[k])
RECURSIVE clamp_keys(_, _)
clamp_keys(d, ks) ==
    IF ks = <<>> THEN d
    ELSE clamp_keys(
             [d EXCEPT ![Head(ks)] = PyFloat(clamp_non_negative(d[Head(ks)]).val)],
             Tail(ks))

\* the two names after lines 185-187
sanitize_alias(d) ==
    [input_dict |-> clamp_keys(d, MoneyKeys), cleaned |-> clamp_keys(d, MoneyKeys)]

sanitize(d) ==
    [input_dict |-> d, cleaned |-> clamp_keys(d, MoneyKeys)]

---------------------------------------------------------------------------
(* Display *)

ErrorMessage == "Terjadi error saat memuat model atau melakukan prediksi."
InfoMessage == "Isi input di sebelah kiri, lalu klik **Prediksi Risiko**."

\* f"{proba:.3f}" of a finite float in ProbUnit: sign, whole part and three
\* decimals of the nearest thousandth. An exact tie in this unit is decided
\* by the double nearest to it; it is rounded to even here.
format_3f(p) ==
    LET a == IF p.n < 0 THEN -p.n ELSE p.n
        per == ProbUnit \div 1000
        q == a \div per
        r == a % per
        up == 2 * r > per \/ (2 * r = per /\ q % 2 = 1)
        m == IF up THEN q + 1 ELSE q
    IN  [neg |-> p.n < 0 \/ p.k = "negzero", whole |-> m \div 1000,
         frac |-> m % 1000]

\* the float a three-decimal text denotes, in ProbUnit
TextValue(t) ==
    (IF t.neg THEN -1 ELSE 1) * (t.whole * 1000 + t.frac) * (ProbUnit \div 1000)

\* lines 193-204: the two metrics, the progress bar and the badge
show_result_rounded(p) ==
    LET b == risk_bucket(Fin(TextValue(format_3f(p))))
    IN  [kind |-> "result", pd |-> format_3f(p), label |-> b[1],
         progress |-> min(max(p, Fin(0)), Fin(ProbUnit)),
         badge |-> b[1], helper |-> b[2]]

show_result(p) ==
    LET b == risk_bucket(p)
    IN  [kind |-> "result", pd |-> format_3f(p), label |-> b[1],
         progress |-> min(max(p, Fin(0)), Fin(ProbUnit)),
         badge |-> b[1], helper |-> b[2]]

\* lines 218-220: except Exception as e
except_nothing(e) == [kind |-> "uncaught", exception |-> e]

except_Exception(e) ==
    IF e.exc \in ExceptionClass
    THEN [kind |-> "error", message |-> ErrorMessage, code |-> str(e)]
    ELSE [kind |-> "uncaught", exception |-> e]

show_info == [kind |-> "info", message |-> InfoMessage]

---------------------------------------------------------------------------
(* The page script *)

\* the calls of the try block, in program order
Pipeline ==
    <<"load_artifacts", "clamp_non_negative", "clamp_non_negative",
      "clamp_non_negative", "transform", "DMatrix", "predict", "risk_bucket">>

\* what the page did when no prediction was asked for
idle_run(d, entry) ==
    [cache |-> entry, ran |-> FALSE, input_dict |-> d, cleaned |-> Unset,
     artifacts |-> NoPair, proba |-> Unset, calls |-> <<>>, fileOps |-> <<>>,
     shown |-> show_info]

\* lines 181-220 for input_dict d: entry is the cache entry, disk the files
\* present, fails the library call that raises if reached, p the value
\* booster.predict returns, n the identity of newly loaded objects
predict_branch(d, entry, disk, fails, p, n) ==
    LET la == cache_resource(entry, disk, fails, n)
        s == sanitize(d)
        atLoad == [cache |-> la.entry, ran |-> la.ran, input_dict |-> d,
                   cleaned |-> Unset, artifacts |-> NoPair, proba |-> Unset,
                   calls |-> SubSeq(Pipeline, 1, 1), fileOps |-> la.ops,
                   shown |-> except_Exception(la.r)]
        loaded == [atLoad EXCEPT !.artifacts = la.r.val,
                                 !.input_dict = s.input_dict,
                                 !.cleaned = s.cleaned]
    IN  IF la.r.exc # "none" THEN atLoad
        ELSE IF fails = "transform"
        THEN [loaded EXCEPT
                 !.calls = SubSeq(Pipeline, 1, 5),
                 !.shown = except_Exception(RaiseWith("ValueError", <<"transform">>))]
        ELSE IF fails = "DMatrix"
        THEN [loaded EXCEPT
                 !.calls = SubSeq(Pipeline, 1, 6),
                 !.shown = except_Exception(RaiseWith("TypeError", <<"DMatrix">>))]
        ELSE IF fails = "predict"
        THEN [loaded EXCEPT
                 !.calls = SubSeq(Pipeline, 1, 7),
                 !.shown = except_Exception(RaiseWith("XGBoostError", <<"predict">>))]
        ELSE [loaded EXCEPT
                 !.calls = Pipeline,
                 !.proba = p,
                 !.shown = show_result(p)]

\* one run of the script, top to bottom
page_always_predicts(click, w, entry, disk, fails, p, n) ==
    predict_branch(build_input_dict(w), entry, disk, fails, p, n)

page(click, w, entry, disk, fails, p, n) ==
    IF click
    THEN predict_branch(build_input_dict(w), entry, disk, fails, p, n)
    ELSE idle_run(build_input_dict(w), entry)

---------------------------------------------------------------------------
(* The session *)

Disks == [vectorizer : BOOLEAN, model : BOOLEAN]
FailPoints == {"joblib.load", "load_model", "transform", "DMatrix", "predict"}

\* values booster.predict returns: finite, also outside [0, 1]
PredictOutputs ==
    {Fin(n) : n \in {200000, 329999, LowThreshold, 500000, MediumThreshold,
                     900000, -100000, 1200000}}

Edited(w) == {k \in Keys : w[k] # WidgetDefault[k]}

PureIdle ==
    /\ pc = "page"
    /\ fnArg = Unset
    /\ fnRes = Unset
    /\ fnRes2 = Unset

\* the first run of the script: every widget at its default, no click
AppStart(disk) ==
    LET o == page(FALSE, WidgetDefault, NoPair, disk, "none", Fin(0), 1)
    IN  /\ widgets = WidgetDefault
        /\ files = disk
        /\ cache = o.cache
        /\ hadCache = FALSE
        /\ loads = 0
        /\ failed = 0
        /\ run_pred = FALSE
        /\ oracle = "none"
        /\ input_dict = o.input_dict
        /\ cleaned = o.cleaned
        /\ artifacts = o.artifacts
        /\ proba = o.proba
        /\ calls = o.calls
        /\ fileOps = o.fileOps
        /\ shown = o.shown

Init ==
    /\ PureIdle
    /\ \E disk \in Disks : AppStart(disk)

\* the run's outcome o becomes the state
Ran(click, fails, o) ==
    /\ loads + (IF o.ran THEN 1 ELSE 0) <= MaxLoads
    /\ failed + (IF click /\ o.shown.kind # "result" THEN 1 ELSE 0) <= MaxFailed
    /\ cache' = o.cache
    /\ hadCache' = (cache # NoPair)
    /\ loads' = loads + (IF o.ran THEN 1 ELSE 0)
    /\ failed' = failed + (IF click /\ o.shown.kind # "result" THEN 1 ELSE 0)
    /\ run_pred' = click
    /\ oracle' = fails
    /\ input_dict' = o.input_dict
    /\ cleaned' = o.cleaned
    /\ artifacts' = o.artifacts
    /\ proba' = o.proba
    /\ calls' = o.calls
    /\ fileOps' = o.fileOps
    /\ shown' = o.shown

\* the user changes one widget: the script reruns with the button False
Edit ==
    \E k \in Keys : \E v \in WidgetValues(k) :
        /\ v # widgets[k]
        /\ Cardinality(Edited([widgets EXCEPT ![k] = v])) <= MaxEdited
        /\ widgets' = [widgets EXCEPT ![k] = v]
        /\ \E o \in {page(FALSE, widgets', cache, files, "none", Fin(0), loads + 1)} :
               Ran(FALSE, "none", o)
        /\ UNCHANGED <<files, pureVars>>

\* the user clicks the button: the script reruns with the button True
Click ==
    \E disk \in Disks : \E fails \in FailPoints \cup {"none"} :
        \E p \in IF fails = "none" THEN PredictOutputs ELSE {Fin(0)} :
            /\ files' = disk
            /\ \E o \in {page(TRUE, widgets, cache, disk, fails, p, loads + 1)} :
                   Ran(TRUE, fails, o)
            /\ UNCHANGED <<widgets, pureVars>>

Next == Edit \/ Click

Spec == Init /\ [][Next]_vars

---------------------------------------------------------------------------
(* The two pure functions applied to bounded inputs *)

Strings == UNION {[1..k -> Alphabet] : k \in 0..MaxStrLen}

FloatInputs ==
    {Fin(i * (MoneyUnit \div 10)) : i \in (-10 * MaxAbsInt)..(10 * MaxAbsInt)}
        \cup {Fin(-52 * (MoneyUnit \div 10)), Fin(125 * (MoneyUnit \div 10))}
        \cup {NegZero, NaN, PosInf, NegInf}

ClampInputs ==
    {PyFloat(f) : f \in FloatInputs}
        \cup {PyInt(i) : i \in (-MaxAbsInt)..MaxAbsInt}
        \cup {PyBool(b) : b \in BOOLEAN}
        \cup {PyStr(s) : s \in Strings}
        \cup {PyNone, PyList, PyHugeInt}

ProbInputs ==
    {Fin((i - 20) * (ProbUnit \div 100)) : i \in 0..MaxProbIdx}
        \cup {Fin(t + d) : t \in {LowThreshold, MediumThreshold}, d \in {-1, 0, 1}}
        \cup {NegZero, NaN, PosInf, NegInf}

InitClamp ==
    /\ pc = "ready"
    /\ fnArg \in ClampInputs
    /\ fnRes = Unset
    /\ fnRes2 = Unset
    /\ AppStart([vectorizer |-> TRUE, model |-> TRUE])

ClampCall ==
    /\ pc = "ready"
    /\ fnRes' = clamp_non_negative(fnArg)
    /\ pc' = "once"
    /\ UNCHANGED <<fnArg, fnRes2, appVars>>

ClampAgain ==
    /\ pc = "once"
    /\ fnRes.exc = "none"
    /\ fnRes2' = clamp_non_negative(PyFloat(fnRes.val))
    /\ pc' = "twice"
    /\ UNCHANGED <<fnArg, fnRes, appVars>>

NextClamp == ClampCall \/ ClampAgain

SpecClamp == InitClamp /\ [][NextClamp]_vars

InitBucket ==
    /\ pc = "ready"
    /\ fnArg \in ProbInputs
    /\ fnRes = Unset
    /\ fnRes2 = Unset
    /\ AppStart([vectorizer |-> TRUE, model |-> TRUE])

BucketCall ==
    /\ pc = "ready"
    /\ fnRes' = risk_bucket(fnArg)
    /\ pc' = "done"
    /\ UNCHANGED <<fnArg, fnRes2, appVars>>

NextBucket == BucketCall

SpecBucket == InitBucket /\ [][NextBucket]_vars

---------------------------------------------------------------------------
(* Claims about risk_bucket (SpecBucket) *)

Tiers == {"LOW", "MEDIUM", "HIGH"}

\* C1: for every probability p, also below 0 and above 1, risk_bucket(p) is
\* exactly one tier with that tier's advisory: LOW when p < 0.33, MEDIUM when
\* 0.33 <= p < 0.66, HIGH when p >= 0.66; 0.33 gives MEDIUM, 0.66 gives HIGH
\* and 0.329999 gives LOW.
C1_RiskBucketTiers ==
    pc = "done" =>
        LET p == fnArg
            tier == fnRes[1]
            below(t) == (p.k \in {"fin", "negzero"} /\ p.n < t) \/ p = NegInf
            atLeast(t) == (p.k \in {"fin", "negzero"} /\ p.n >= t) \/ p = PosInf
        IN  /\ fnRes \in {<<"LOW", HelperLow>>, <<"MEDIUM", HelperMedium>>,
                          <<"HIGH", HelperHigh>>}
            /\ below(LowThreshold) => tier = "LOW"
            /\ atLeast(LowThreshold) /\ below(MediumThreshold) => tier = "MEDIUM"
            /\ atLeast(MediumThreshold) => tier = "HIGH"
            /\ p = Fin(LowThreshold) => tier = "MEDIUM"
            /\ p = Fin(MediumThreshold) => tier = "HIGH"
            /\ p = Fin(329999) => tier = "LOW"

C1_Witness ==
    /\ pc = "done"
    /\ fnArg = Fin(LowThreshold)
    /\ fnRes[1] = "MEDIUM"

---------------------------------------------------------------------------
(* Claims about clamp_non_negative (SpecClamp) *)

Called == pc \in {"once", "twice"}

IsNonNegativeFloat(v) ==
    \/ v.k = "fin" /\ v.n >= 0
    \/ v.k = "negzero"
    \/ v = PosInf

IsNegativeFloat(v) ==
    \/ v.k = "fin" /\ v.n < 0
    \/ v = NegInf

\* C2: clamp_non_negative is total and never negative: for every input
\* (negative numbers, non-numeric strings, None, any other value) the call
\* returns a float >= 0 and raises nothing.
C2_ClampTotalNonNegative ==
    Called =>
        /\ fnRes.exc = "none"
        /\ IsNonNegativeFloat(fnRes.val)

C2_Witness ==
    /\ pc = "once"
    /\ fnArg = PyNone
    /\ fnRes = Return(Fin(0))

\* C3: clamp_non_negative(x) is 0.0 when float(x) fails and max(0.0, v) when
\* float(x) is v: a negative v (and nan, which is not greater than 0.0) gives
\* 0.0, a non-negative v is returned unchanged; -5.2 gives 0.0, "abc" gives
\* 0.0 and 12.5 gives 12.5.
C3_ClampValue ==
    Called =>
        LET c == float(fnArg)
        IN  /\ c.exc # "none" => fnRes = Return(Fin(0))
            /\ c.exc = "none" /\ IsNegativeFloat(c.val) => fnRes = Return(Fin(0))
            /\ c.exc = "none" /\ c.val = NaN => fnRes = Return(Fin(0))
            /\ c.exc = "none" /\ IsNonNegativeFloat(c.val) =>
                   /\ fnRes.exc = "none"
                   /\ FEq(fnRes.val, c.val)
            /\ fnArg = PyFloat(Fin(-52 * (MoneyUnit \div 10))) => fnRes = Return(Fin(0))
            /\ fnArg = PyStr(<<"a", "b", "c">>) => fnRes = Return(Fin(0))
            /\ fnArg = PyFloat(Fin(125 * (MoneyUnit \div 10))) =>
                   fnRes = Return(Fin(125 * (MoneyUnit \div 10)))

C3_Witness ==
    /\ pc = "once"
    /\ fnArg = PyFloat(Fin(-52 * (MoneyUnit \div 10)))
    /\ fnRes = Return(Fin(0))

\* C4: clamp_non_negative is idempotent: applying it to its own result
\* returns a value equal (==) to that result, for every input.
C4_ClampIdempotent ==
    /\ Called => fnRes.exc = "none"
    /\ pc = "twice" =>
           /\ fnRes2.exc = "none"
           /\ FEq(fnRes2.val, fnRes.val)

C4_Witness ==
    /\ pc = "twice"
    /\ fnArg = PyStr(<<"-", "5">>)
    /\ fnRes = Return(Fin(0))
    /\ fnRes2 = Return(Fin(0))

---------------------------------------------------------------------------
(* Claims about the page (Spec) *)

\* what the last request met, from its inputs alone
Missing == {f \in {"vectorizer", "model"} : ~files[f]}
PathOf(f) == IF f = "vectorizer" THEN VECTORIZER_PATH ELSE MODEL_PATH
LoadFailure ==
    /\ ~hadCache
    /\ Missing # {} \/ oracle \in {"joblib.load", "load_model"}
ScoringFailure ==
    /\ ~LoadFailure
    /\ oracle \in {"transform", "DMatrix", "predict"}
AllSucceed == run_pred /\ ~LoadFailure /\ ~ScoringFailure

Count(name) == Cardinality({i \in DOMAIN calls : calls[i] = name})

\* C5: in a triggered request a failure of any step (loading, transform,
\* DMatrix, predict) never escapes: the request ends showing the error
\* message with the exception's text, and whatever number of requests
\* failed before, a triggered request whose steps all succeed shows a result.
C5_FailuresCaught ==
    run_pred =>
        /\ shown.kind \in {"result", "error"}
        /\ LoadFailure \/ ScoringFailure =>
               /\ shown.kind = "error"
               /\ shown.message = ErrorMessage
               /\ shown.code =
                      IF ~hadCache /\ Missing # {}
                      THEN FileNotFoundText(
                               PathOf(IF ~files.vectorizer THEN "vectorizer"
                                      ELSE "model"))
                      ELSE <<oracle>>
        /\ ~LoadFailure /\ ~ScoringFailure =>
               /\ shown.kind = "result"
               /\ shown.label \in Tiers

C5_Witness ==
    /\ failed >= 2
    /\ AllSucceed
    /\ shown.kind = "result"

ArtifactMissingShown ==
    /\ shown.kind = "error"
    /\ \E f \in Missing : shown.code = FileNotFoundText(PathOf(f))
    /\ shown.code \notin {<<f>> : f \in FailPoints}
    /\ Count("transform") = 0
    /\ Count("DMatrix") = 0
    /\ Count("predict") = 0
    /\ Count("load_artifacts") = 1
    /\ \A i, j \in DOMAIN fileOps : fileOps[i] = fileOps[j] => i = j
    /\ \A i \in DOMAIN fileOps : fileOps[i] \notin {"joblib.load", "load_model"}

\* C6 as stated: whenever a file is absent at a triggered request, the
\* request reports the artifact-missing error.
C6_Original ==
    run_pred /\ Missing # {} => ArtifactMissingShown

\* C6: when one or both artifact files are absent at a triggered request
\* that finds no cached artifacts, the request shows an error whose text is
\* the file-not-found text naming an absent path (no scoring failure shows
\* that text), transform, DMatrix and predict are not called in it, and
\* load_artifacts is called once and touches no file twice.
C6_ArtifactMissing ==
    run_pred /\ Missing # {} /\ ~hadCache => ArtifactMissingShown

C6_Witness ==
    /\ run_pred
    /\ ~hadCache
    /\ Missing = {"model"}
    /\ shown.kind = "error"
    /\ shown.code = FileNotFoundText(MODEL_PATH)
    /\ calls = <<"load_artifacts">>

\* C7: over any sequence of requests the artifacts are loaded at most once:
\* once a pair is cached, every later page run leaves it as it is and
\* touches no file, and a triggered request gets that same pair.
C7_LoadedAtMostOnce ==
    [][/\ loads' <= 1
       /\ cache # NoPair =>
              /\ cache' = cache
              /\ loads' = loads
              /\ fileOps' = <<>>
              /\ run_pred' => artifacts' = cache]_vars

C7_Witness ==
    /\ loads = 1
    /\ hadCache
    /\ run_pred
    /\ fileOps = <<>>
    /\ artifacts = cache
    /\ cache # NoPair
    /\ shown.kind = "result"

TierOf(n) ==
    IF n < LowThreshold THEN "LOW"
    ELSE IF n < MediumThreshold THEN "MEDIUM" ELSE "HIGH"

HelperOf(tier) ==
    IF tier = "LOW" THEN HelperLow
    ELSE IF tier = "MEDIUM" THEN HelperMedium ELSE HelperHigh

TierShown ==
    /\ calls = Pipeline
    /\ shown.kind = "result"
    /\ shown.label = TierOf(proba.n)
    /\ shown.badge = shown.label
    /\ shown.helper = HelperOf(shown.label)
    /\ proba = Fin(200000) => shown.label = "LOW"
    /\ proba = Fin(500000) => shown.label = "MEDIUM"
    /\ proba = Fin(900000) => shown.label = "HIGH"

\* C8 as stated: the displayed probability is p itself.
C8_Original ==
    AllSucceed =>
        /\ TierShown
        /\ TextValue(shown.pd) = proba.n

\* C8: in a triggered request whose load, transform and predict all
\* succeed, the tier and advisory shown are those of p's bracket and the
\* probability shown is p rounded to three decimals, p being the value
\* predict returned in that request: 0.2 gives LOW, 0.5 MEDIUM, 0.9 HIGH.
C8_DisplayedResult ==
    AllSucceed =>
        /\ TierShown
        /\ LET diff == TextValue(shown.pd) - proba.n
           IN  /\ 2 * diff <= ProbUnit \div 1000
               /\ -2 * diff <= ProbUnit \div 1000
        /\ shown.pd.frac \in 0..999

C8_Witness ==
    /\ AllSucceed
    /\ proba = Fin(329999)
    /\ shown.kind = "result"
    /\ shown.label = "LOW"
    /\ shown.pd = [neg |-> FALSE, whole |-> 0, frac |-> 330]

Sanitized == Len(calls) > 1

\* C9: the record handed to the encoder differs from the entered record
\* only in income, assets and debt, each a float >= 0 (0.0 for a negative
\* entry, the entry itself otherwise); the other ten fields are the entered
\* ones; input_dict is the entered record before and after sanitization.
C9_OnlyMoneyFieldsCleaned ==
    /\ \A k \in Keys : input_dict[k] = widgets[k]
    /\ DOMAIN input_dict = Keys
    /\ Sanitized =>
           /\ DOMAIN cleaned = Keys
           /\ \A k \in Keys \ Range(MoneyKeys) : cleaned[k] = widgets[k]
           /\ \A k \in Range(MoneyKeys) :
                  /\ cleaned[k].t = "float"
                  /\ IsNonNegativeFloat(cleaned[k].v)
                  /\ cleaned[k].v =
                         IF widgets[k].v.n < 0 THEN Fin(0) ELSE widgets[k].v

C9_Witness ==
    /\ run_pred
    /\ Sanitized
    /\ widgets.debt.v.n < 0
    /\ cleaned.debt = Money(0)
    /\ input_dict.debt = widgets.debt
    /\ cleaned.income = widgets.income

\* C10: a page run without a click loads nothing, calls neither encoder
\* nor classifier and shows only the prompt; a run with a click makes the
\* pipeline's calls in program order, each step once, up to and including
\* the first one that fails.
C10_RequestTriggered ==
    /\ ~run_pred =>
           /\ calls = <<>>
           /\ fileOps = <<>>
           /\ artifacts = NoPair
           /\ hadCache = (cache # NoPair)
           /\ shown = show_info
    /\ run_pred =>
           LET stop == IF LoadFailure THEN 1
                       ELSE IF oracle = "transform" THEN 5
                       ELSE IF oracle = "DMatrix" THEN 6
                       ELSE IF oracle = "predict" THEN 7
                       ELSE Len(Pipeline)
           IN  /\ calls = SubSeq(Pipeline, 1, stop)
               /\ \A step \in {"load_artifacts", "transform", "DMatrix",
                               "predict", "risk_bucket"} : Count(step) <= 1
               /\ Count("clamp_non_negative") \in {0, Len(MoneyKeys)}
               /\ shown.kind = "result" <=> stop = Len(Pipeline)

C10_Witness ==
    /\ run_pred
    /\ oracle = "transform"
    /\ calls = SubSeq(Pipeline, 1, 5)
    /\ shown.kind = "error"

===========================================================================
